---- MODULE Spec2Model ----
(***************************************************************************)
(* The connection layer of the bingo client: src/websocket.js and the      *)
(* second copy of it, src/unnamed/part_000.  One behaviour runs one of the *)
(* two modules (impl); the module-level variables that both files hold     *)
(* (the socket reference, reconnectAttempts, pingInterval, messageQueue)   *)
(* are shared by the two transition systems.                               *)
(*                                                                         *)
(* A handler is an operator from a state record to a state record, so that *)
(* a handler that calls another one (onopen -> sendMessage ->              *)
(* attemptReconnection) is one atomic step, as it is on the event loop.    *)
(* io records what the last step did to the outside, in order: the sockets *)
(* it created and closed, what it handed to send, the timers it set and    *)
(* the value it returned.                                                  *)
(***************************************************************************)
EXTENDS Integers, Sequences, FiniteSets, TLC

VARIABLES impl, sockets, ws, reconnectAttempts, connectionStatus, pingInterval,
          lastPong, messageQueue, eventListeners, timers, now, nextId, io,
          lastConfirm, autoAttempts, delays, heap, intervals,
          handed, scope

vars == <<impl, sockets, ws, reconnectAttempts, connectionStatus, pingInterval,
          lastPong, messageQueue, eventListeners, timers, now, nextId, io,
          lastConfirm, autoAttempts, delays, heap, intervals, handed, scope>>

\* ---------------------------------------------------------------- constants
MAX_RECONNECT_ATTEMPTS == 5
RECONNECT_DELAY == 3000
PING_INTERVAL == 30000
maxAge == 5 * 60 * 1000
MAX_RETRIES == 3

\* ------------------------------------------------------------------- bounds
\* sockets that exist at the same time (a slot is reused once its socket is
\* closed and no longer referenced)
MaxSockets == 2
\* lastMessage objects that exist at the same time: the one connectionStatus
\* refers to and the one a value returned by getConnectionStatus() refers to
MaxObjects == 2
\* interval timers that run at the same time
MaxIntervals == 2
\* valid messages the application passes to sendMessage in one behaviour
MaxMsgs == 2
\* steps of the clock
MaxTicks == 1
\* reconnect timers pending at the same time
MaxTimers == 2
\* entries of the outbound queue
MaxQueue == 2

\* callbacks the application has, and registrations per event type
MaxCallbacks == 2
MaxListeners == 2

NULL == 0
Slots == 1..MaxSockets

\* the clock moves by one heartbeat period, or by an outage that outlasts the
\* queue's maximum age
Outage == maxAge + PING_INTERVAL
TimeSteps == {PING_INTERVAL, Outage}
Ticks(t) == (t \div Outage) + ((t % Outage) \div PING_INTERVAL)

\* ----------------------------------------------------------------- messages
\* what a caller can pass to sendMessage: something that is no object, an
\* object without a type, or a typed object; ser tells whether JSON.stringify
\* accepts it
NotAnObject == [primitive |-> TRUE]
NoType == [id |-> 0, ser |-> TRUE]
UserMessage(n, s) == [id |-> n, type |-> "user", ser |-> s]
IsObject(m) == "primitive" \notin DOMAIN m
HasType(m) == "type" \in DOMAIN m
Meta == {"_timestamp", "_retryCount"}
Strip(q) == [k \in DOMAIN q \ Meta |-> q[k]]

\* ------------------------------------------------------------------- events
\* the types of the inbound messages: one every file has a handler for, one
\* no file knows, and one that names a property every JavaScript object
\* inherits
MessageTypes == {"number_called", "mystery", "constructor"}
\* the event types subscribers register for: the reserved unknown channel, the
\* event a recognized message raises, and the event raised for every message
\* ('message' in websocket.js, 'onmessage' in part_000)
EveryMessage == IF impl = "websocket" THEN "message" ELSE "onmessage"
EventTypes == {"unknown_message", "number_called", EveryMessage}
\* the event raised when a connection opens ('connected' in websocket.js,
\* 'onopen' in part_000)
OpenEvent == IF impl = "websocket" THEN "connected" ELSE "onopen"
Callbacks == 1..MaxCallbacks
\* what a callback does when it is invoked: it returns, it throws, or it calls
\* removeEventListener for a callback of the event being dispatched
Behaviours ==
    {[does |-> "return"], [does |-> "throw"]}
        \cup {[does |-> "remove", cb |-> c] : c \in Callbacks}
\* what a subscriber of the open event does: it returns, or it calls
\* sendMessage with a message of its own
OpenBehaviours == {[does |-> "return"], [does |-> "send"]}
FromSubscriber == [id |-> 0, type |-> "subscriber", ser |-> TRUE]
\* no callback does anything
NoCallbacks == [c \in Callbacks |-> [does |-> "return"]]

\* ----------------------------------------------------------------- identity
\* the options of a connect call that carry the identity: no options at all,
\* and those of an administrator with a player id and a token; the
\* application passes the latter when "identity" is in scope
NoOptions == [playerId |-> NULL, isAdmin |-> FALSE, adminToken |-> NULL]
AdminOptions == [playerId |-> 1, isAdmin |-> TRUE, adminToken |-> 1]
Options == IF "identity" \in scope THEN {AdminOptions} ELSE {NoOptions}
\* a player id made up for one hello (generatePlayerId(), 'admin_' + Date.now())
Generated == -1

\* ------------------------------------------------------------------ objects
\* connectionStatus.lastMessage is a reference to an object: heap.lastMessage
\* is the reference, heap.objects what each object holds, and heap.snapshot the
\* value the application got from its last getConnectionStatus() (a sequence
\* of one value, empty before the first call), whose lastMessage is a
\* reference again
Refs == 1..MaxObjects
NoObject == [type |-> "none", timestamp |-> 0]
NoHeap == [lastMessage |-> NULL, objects |-> [r \in Refs |-> NoObject], snapshot |-> <<>>]
\* the objects something still refers to; the others are gone
Live(h) == {h.lastMessage} \cup {h.snapshot[i].lastMessage : i \in DOMAIN h.snapshot}
Collect(h) == [h EXCEPT !.objects = [r \in Refs |-> IF r \in Live(h) THEN @[r] ELSE NoObject]]
\* an object literal: a new object
NewObject(h) == CHOOSE r \in Refs \ Live(h) : \A q \in Refs \ Live(h) : r <= q

\* ------------------------------------------------------------- state record
\* options: the argument of the connect call in progress; by: who makes the
\* call, the caller or a reconnect timer
Cur ==
    [impl |-> impl, sockets |-> sockets, ws |-> ws,
     reconnectAttempts |-> reconnectAttempts,
     connectionStatus |-> connectionStatus, pingInterval |-> pingInterval,
     lastPong |-> lastPong, messageQueue |-> messageQueue,
     eventListeners |-> eventListeners, timers |-> timers,
     now |-> now, io |-> <<>>, ret |-> FALSE, fits |-> TRUE,
     options |-> NoOptions, by |-> "caller", heap |-> heap]

Emit(st, e) == [st EXCEPT !.io = Append(@, e)]
Return(st, v) == [st EXCEPT !.ret = v]
\* the value an exported function hands back to its caller
Returned(st) == Emit(st, [ev |-> "return", value |-> st.ret])
RemoveAt(q, i) == SubSeq(q, 1, i - 1) \o SubSeq(q, i + 1, Len(q))

IsOpen(st) == st.ws # NULL /\ st.sockets[st.ws].readyState = "OPEN"

\* a slot whose socket is closed and has delivered its close event; the only
\* reference the module can still hold to it is the one NewSocket overwrites
FreeSlots(st) == {s \in Slots : st.sockets[s].readyState = "CLOSED"}
ClosedSocket == [readyState |-> "CLOSED", code |-> 0, opts |-> NoOptions, by |-> "caller"]

\* new WebSocket(url): the socket starts CONNECTING; opts: the options the
\* handlers assigned to it have in their closure
NewSocket(st) ==
    IF FreeSlots(st) = {} THEN [st EXCEPT !.fits = FALSE]
    ELSE LET s == CHOOSE x \in FreeSlots(st) : \A y \in FreeSlots(st) : x <= y
         IN Emit([st EXCEPT !.sockets[s] = [readyState |-> "CONNECTING", code |-> 0,
                                            opts |-> st.options, by |-> st.by],
                            !.ws = s],
                 [ev |-> "new", sock |-> s])

\* WebSocket.close(code) on socket s: nothing on a socket that is closing or
\* closed; a connecting socket fails (its close event carries 1006); an open
\* one starts the closing handshake with the code given (1005: none given)
SocketClose(st, s, code) ==
    LET rs == st.sockets[s].readyState
        st1 == Emit(st, [ev |-> "close", sock |-> s, code |-> code, was |-> rs])
    IN  IF rs = "CONNECTING"
        THEN [st1 EXCEPT !.sockets[s].readyState = "CLOSING", !.sockets[s].code = 1006]
        ELSE IF rs = "OPEN"
        THEN [st1 EXCEPT !.sockets[s].readyState = "CLOSING", !.sockets[s].code = code]
        ELSE st1

\* scope is fixed by the initial state and names what a behaviour observes:
\* io keeps the record of a step of an operation named in scope, the observers
\* (lastConfirm, autoAttempts, delays) run when they are named, and the
\* application passes messages that JSON.stringify rejects when
\* "unserializable" is
\* the delays of the timers a step set, in order
Scheduled(log) ==
    LET set == SelectSeq(log, LAMBDA e : e.ev = "setTimeout")
    IN  [i \in 1..Len(set) |-> set[i].delay]

Seen(log) == IF log[1].op \in scope THEN log ELSE <<>>
Track(name, value, idle) == IF name \in scope THEN value ELSE idle

\* the interval timers that run after a step: websocket.js and part_000 keep
\* the handle of the one they set and clear it before they set another, admin.js
\* sets one with each startPingInterval and clears none
Running(st) ==
    IF st.impl = "admin"
    THEN intervals + Len(SelectSeq(st.io, LAMBDA e : e.ev = "setInterval"))
    ELSE IF st.pingInterval # NULL THEN 1 ELSE 0

\* the application's messages a step handed to socket.send
HandedIn(log) ==
    {log[i].msg.id : i \in {j \in 1..Len(log) : log[j].ev = "send" /\ log[j].msg.id > 0}}

Commit(st) ==
    /\ st.fits
    /\ Track("intervals", Running(st), 0) <= MaxIntervals
    /\ st.timers <= MaxTimers
    /\ Len(st.messageQueue) <= MaxQueue
    /\ impl' = st.impl
    /\ sockets' = st.sockets
    /\ ws' = st.ws
    /\ reconnectAttempts' = st.reconnectAttempts
    /\ connectionStatus' = st.connectionStatus
    /\ pingInterval' = st.pingInterval
    /\ lastPong' = st.lastPong
    /\ messageQueue' = st.messageQueue
    /\ eventListeners' = st.eventListeners
    /\ timers' = st.timers
    /\ now' = st.now
    /\ io' = Seen(st.io)
    /\ delays' = Track("delays",
                       (IF st.io[1].op \in {"onopen", "reconnect"} THEN <<>> ELSE delays)
                           \o Scheduled(st.io),
                       <<>>)
    /\ heap' = Track("getConnectionStatus", st.heap, NoHeap)
    /\ intervals' = Track("intervals", Running(st), 0)
    /\ handed' = Track("handed", handed \cup HandedIn(st.io), {})
    /\ scope' = scope

\* the record of a step starts with the operation and whether the module's
\* socket was open when it started
Call(name) == [Cur EXCEPT !.io = <<[ev |-> "call", op |-> name, open |-> IsOpen(Cur)]>>]
CallOn(name, s) == [Cur EXCEPT !.io = <<[ev |-> "call", op |-> name, sock |-> s]>>]

\* ============================================================ src/websocket.js

ws_stopPingInterval(st) == [st EXCEPT !.pingInterval = NULL]

ws_attemptReconnection(st) ==
    LET st1 == [st EXCEPT !.reconnectAttempts = @ + 1]
        delay == RECONNECT_DELAY * 2 ^ (st1.reconnectAttempts - 1)
    IN  IF st1.reconnectAttempts > MAX_RECONNECT_ATTEMPTS
        THEN Emit(st1, [ev |-> "notify", text |-> "Cannot reconnect to server"])
        ELSE Emit([st1 EXCEPT !.timers = @ + 1], [ev |-> "setTimeout", delay |-> delay])

ws_enqueue(st, message) ==
    [st EXCEPT !.messageQueue =
        Append(@, [_timestamp |-> st.now, _retryCount |-> 0] @@ message)]

ws_sendMessage(st, message, queueIfOffline) ==
    IF ~IsObject(message) THEN Return(st, FALSE)
    ELSE IF ~HasType(message) THEN Return(st, FALSE)
    ELSE IF ~IsOpen(st)
    THEN LET st1 == IF queueIfOffline THEN ws_enqueue(st, message) ELSE st
             st2 == IF ~st1.connectionStatus.connected /\ st1.reconnectAttempts = 0
                    THEN ws_attemptReconnection(st1) ELSE st1
         IN  Return(st2, FALSE)
    ELSE IF message.ser
    THEN Return(Emit(st, [ev |-> "send", sock |-> st.ws, msg |-> message]), TRUE)
    ELSE LET st1 == IF queueIfOffline THEN ws_enqueue(st, message) ELSE st
         IN  Return(st1, FALSE)

\* the loop of processMessageQueue without its check of the age
RECURSIVE ws_drain_noMaxAge(_, _)
ws_drain_noMaxAge(st, i) ==
    IF i < 1 THEN st
    ELSE LET queuedMessage == st.messageQueue[i]
             st1 == ws_sendMessage(st, Strip(queuedMessage), FALSE)
         IN  IF st1.ret
             THEN ws_drain_noMaxAge([st1 EXCEPT !.messageQueue = RemoveAt(@, i)], i - 1)
             ELSE LET rc == queuedMessage._retryCount + 1 IN
                  IF rc > MAX_RETRIES
                  THEN ws_drain_noMaxAge(
                           Emit([st1 EXCEPT !.messageQueue = RemoveAt(@, i)],
                                [ev |-> "discard", why |-> "retries",
                                 msg |-> Strip(queuedMessage)]),
                           i - 1)
                  ELSE ws_drain_noMaxAge([st1 EXCEPT !.messageQueue[i]._retryCount = rc],
                                         i - 1)

\* the loop of processMessageQueue without the splice after a send that
\* succeeded
RECURSIVE ws_drain_keepsSent(_, _)
ws_drain_keepsSent(st, i) ==
    IF i < 1 THEN st
    ELSE LET queuedMessage == st.messageQueue[i] IN
         IF st.now - queuedMessage._timestamp > maxAge
         THEN ws_drain_keepsSent(
                  Emit([st EXCEPT !.messageQueue = RemoveAt(@, i)],
                       [ev |-> "discard", why |-> "age", msg |-> Strip(queuedMessage)]),
                  i - 1)
         ELSE LET st1 == ws_sendMessage(
                                 Emit(st, [ev |-> "attempt", msg |-> Strip(queuedMessage)]),
                                 Strip(queuedMessage), FALSE) IN
              IF st1.ret
              THEN ws_drain_keepsSent(st1, i - 1)
              ELSE LET rc == queuedMessage._retryCount + 1 IN
                   IF rc > MAX_RETRIES
                   THEN ws_drain_keepsSent(
                            Emit([st1 EXCEPT !.messageQueue = RemoveAt(@, i)],
                                 [ev |-> "discard", why |-> "retries",
                                  msg |-> Strip(queuedMessage)]),
                            i - 1)
                   ELSE ws_drain_keepsSent([st1 EXCEPT !.messageQueue[i]._retryCount = rc],
                                           i - 1)

\* the loop of processMessageQueue at index i (1-based), counting down
RECURSIVE ws_drain(_, _)
ws_drain(st, i) ==
    IF i < 1 THEN st
    ELSE LET queuedMessage == st.messageQueue[i] IN
         IF st.now - queuedMessage._timestamp > maxAge
         THEN ws_drain(Emit([st EXCEPT !.messageQueue = RemoveAt(@, i)],
                            [ev |-> "discard", why |-> "age", msg |-> Strip(queuedMessage)]),
                       i - 1)
         ELSE LET st1 == ws_sendMessage(
                                 Emit(st, [ev |-> "attempt", msg |-> Strip(queuedMessage)]),
                                 Strip(queuedMessage), FALSE) IN
              IF st1.ret
              THEN ws_drain([st1 EXCEPT !.messageQueue = RemoveAt(@, i)], i - 1)
              ELSE LET rc == queuedMessage._retryCount + 1 IN
                   IF rc > MAX_RETRIES
                   THEN ws_drain(Emit([st1 EXCEPT !.messageQueue = RemoveAt(@, i)],
                                      [ev |-> "discard", why |-> "retries",
                                       msg |-> Strip(queuedMessage)]),
                                 i - 1)
                   ELSE ws_drain([st1 EXCEPT !.messageQueue[i]._retryCount = rc], i - 1)

ws_processMessageQueue(st) == ws_drain(st, Len(st.messageQueue))

Hello == [id |-> 0, type |-> "hello", ser |-> TRUE]
\* the hello of ws.onopen, from the options in its closure
ws_hello(opts) ==
    Hello @@ [playerId |-> opts.playerId, isAdmin |-> opts.isAdmin,
              token |-> opts.adminToken]
Ping(t) == [id |-> 0, type |-> "ping", ser |-> TRUE, timestamp |-> t]

ws_startPingInterval(st) ==
    [ws_stopPingInterval(st) EXCEPT !.pingInterval = st.now + PING_INTERVAL]

\* initWebSocket without its early return on an open socket
ws_initWebSocket_noGuard(st, throws) ==
    LET st0 == IF st.ws # NULL
               THEN [SocketClose(st, st.ws, 1005) EXCEPT !.ws = NULL]
               ELSE st
        st1 == [st0 EXCEPT !.connectionStatus.playerId = st.options.playerId,
                           !.connectionStatus.isAdmin = st.options.isAdmin]
    IN  Return(NewSocket(st1), TRUE)

\* initWebSocket; throws: the WebSocket constructor throws
ws_initWebSocket(st, throws) ==
    IF IsOpen(st) THEN Return(st, TRUE)
    ELSE LET st0 == IF st.ws # NULL
                    THEN [SocketClose(st, st.ws, 1005) EXCEPT !.ws = NULL]
                    ELSE st
             st1 == [st0 EXCEPT !.connectionStatus.playerId = st.options.playerId,
                                !.connectionStatus.isAdmin = st.options.isAdmin]
         IN  IF throws
             THEN LET st2 == Emit(st1, [ev |-> "notify", text |-> "Failed to connect to server"])
                      st3 == IF st2.reconnectAttempts < MAX_RECONNECT_ATTEMPTS
                             THEN ws_attemptReconnection(st2) ELSE st2
                  IN  Return(st3, FALSE)
             ELSE Return(NewSocket(st1), TRUE)

\* the options initWebSocket is called with by reconnect() and by the timer
\* of attemptReconnection: the stored player id and admin flag, no token
ws_storedOptions(st) ==
    [playerId |-> st.connectionStatus.playerId, isAdmin |-> st.connectionStatus.isAdmin,
     adminToken |-> NULL]

\* the setTimeout callback of attemptReconnection
ws_reconnectCallback(st, throws) ==
    ws_initWebSocket([st EXCEPT !.options = ws_storedOptions(st)], throws)

ws_onclose(st, code) ==
    LET st1 == [ws_stopPingInterval(st) EXCEPT !.connectionStatus.connected = FALSE,
                                               !.ws = NULL]
    IN  IF code # 1000 /\ code # 1001 /\ st1.reconnectAttempts < MAX_RECONNECT_ATTEMPTS
        THEN ws_attemptReconnection(st1)
        ELSE st1

ws_onerror(st) == [st EXCEPT !.connectionStatus.connected = FALSE]

\* the setInterval callback of startPingInterval; throws: ws.close(1001, ..)
\* throws InvalidAccessError (the browser API takes 1000 or 3000..4999 only)
ws_pingCallback(st, throws) ==
    LET st1 == IF IsOpen(st)
               THEN ws_sendMessage([st EXCEPT !.lastPong = st.now], Ping(st.now), TRUE)
               ELSE st
        st2 == IF st1.now - st1.lastPong > PING_INTERVAL * 2 /\ st1.ws # NULL
               THEN IF throws
                    THEN Emit(st1, [ev |-> "throw", sock |-> st1.ws, code |-> 1001])
                    ELSE SocketClose(st1, st1.ws, 1001)
               ELSE st1
    IN  [st2 EXCEPT !.pingInterval = st.now + PING_INTERVAL]

ws_addEventListener(st, event, callback) ==
    [st EXCEPT !.eventListeners[event] = Append(@, callback)]

\* listeners.indexOf(callback), 1-based; 0: not found
IndexOf(seq, x) ==
    IF \E i \in 1..Len(seq) : seq[i] = x
    THEN CHOOSE i \in 1..Len(seq) : seq[i] = x /\ \A j \in 1..(i - 1) : seq[j] # x
    ELSE 0

ws_removeEventListener(st, event, callback) ==
    LET index == IndexOf(st.eventListeners[event], callback)
    IN  IF index > 0 THEN [st EXCEPT !.eventListeners[event] = RemoveAt(@, index)]
        ELSE st

\* the loop of triggerEvent without the try/catch around the callback: the
\* first exception ends it
RECURSIVE ws_forEach_noCatch(_, _, _, _, _, _)
ws_forEach_noCatch(st, event, data, acts, k, len) ==
    IF k > len THEN st
    ELSE IF k > Len(st.eventListeners[event])
    THEN ws_forEach_noCatch(st, event, data, acts, k + 1, len)
    ELSE LET callback == st.eventListeners[event][k]
             st1 == Emit(st, [ev |-> "callback", event |-> event, cb |-> callback,
                              data |-> data])
         IN  IF acts[callback].does = "throw"
             THEN Emit(st1, [ev |-> "uncaught", event |-> event, cb |-> callback])
             ELSE IF acts[callback].does = "remove"
             THEN ws_forEach_noCatch(ws_removeEventListener(st1, event, acts[callback].cb),
                                     event, data, acts, k + 1, len)
             ELSE ws_forEach_noCatch(st1, event, data, acts, k + 1, len)

\* Array.prototype.forEach over the registered array itself: index k of the
\* len elements the array had when the loop started, skipping an index the
\* array no longer has
RECURSIVE ws_forEach(_, _, _, _, _, _)
ws_forEach(st, event, data, acts, k, len) ==
    IF k > len THEN st
    ELSE IF k > Len(st.eventListeners[event])
    THEN ws_forEach(st, event, data, acts, k + 1, len)
    ELSE LET callback == st.eventListeners[event][k]
             st1 == Emit(st, [ev |-> "callback", event |-> event, cb |-> callback,
                              data |-> data])
             st2 == IF acts[callback].does = "throw"
                    THEN Emit(st1, [ev |-> "caught", event |-> event, cb |-> callback])
                    ELSE IF acts[callback].does = "remove"
                    THEN ws_removeEventListener(st1, event, acts[callback].cb)
                    ELSE IF acts[callback].does = "send"
                    THEN ws_sendMessage(st1, FromSubscriber, TRUE)
                    ELSE st1
         IN  ws_forEach(st2, event, data, acts, k + 1, len)

ws_triggerEvent(st, event, data, acts) ==
    ws_forEach(Emit(st, [ev |-> "triggerEvent", event |-> event, data |-> data]),
               event, data, acts, 1, Len(st.eventListeners[event]))

\* ws.onopen of socket s; acts: what each subscriber of 'connected' does
ws_onopen(st, s, acts) ==
    LET st1 == [st EXCEPT !.sockets[s].readyState = "OPEN",
                          !.connectionStatus.connected = TRUE,
                          !.reconnectAttempts = 0]
        st2 == ws_startPingInterval(st1)
        st3 == ws_sendMessage(st2, ws_hello(st.sockets[s].opts), TRUE)
        st4 == ws_triggerEvent(st3, "connected", [type |-> "open"], acts)
    IN  ws_processMessageQueue(st4)

ws_handleUnknownMessage(st, message, acts) ==
    ws_triggerEvent(st, "unknown_message", message, acts)

\* messageHandlers[message.type] is a function: the keys of the table, and
\* the properties messageHandlers inherits from Object.prototype
ws_messageHandlers(type) == type \in {"number_called", "constructor"}

\* connectionStatus.lastMessage = {type: message.type, timestamp: Date.now(), ..}
ws_setLastMessage(st, message) ==
    LET h == [st.heap EXCEPT !.lastMessage = NULL]
        r == NewObject(h)
    IN  [st EXCEPT !.heap = Collect([h EXCEPT !.lastMessage = r,
                                              !.objects[r] = [type |-> message.type,
                                                              timestamp |-> st.now]])]

\* ws.onmessage for a message that parses
ws_onmessage(st, message, acts) ==
    LET st0 == ws_setLastMessage(st, message)
        st1 == IF ws_messageHandlers(message.type)
               THEN IF message.type = "number_called"
                    THEN ws_triggerEvent(st0, "number_called", message, acts)
                    ELSE st0
               ELSE ws_handleUnknownMessage(st0, message, acts)
    IN  ws_triggerEvent(st1, "message", message, acts)

\* getConnectionStatus(): { ...connectionStatus }, a copy of the properties of
\* connectionStatus; the copy of lastMessage is the reference
ws_getConnectionStatus(st) ==
    [st EXCEPT !.heap = Collect([st.heap EXCEPT !.snapshot =
                                     <<[connected |-> st.connectionStatus.connected,
                                        playerId |-> st.connectionStatus.playerId,
                                        isAdmin |-> st.connectionStatus.isAdmin,
                                        lastMessage |-> st.heap.lastMessage]>>])]

ws_clearMessageQueue(st) == [st EXCEPT !.messageQueue = <<>>]

\* disconnect that also empties the queue
ws_disconnect_clearsQueue(st) ==
    LET st1 == ws_stopPingInterval(st)
        st2 == IF st1.ws # NULL
               THEN [SocketClose(st1, st1.ws, 1000) EXCEPT !.ws = NULL]
               ELSE st1
    IN  ws_clearMessageQueue(
            [st2 EXCEPT !.connectionStatus.connected = FALSE, !.reconnectAttempts = 0])

\* disconnect that keeps its reference to the socket it closed
ws_disconnect_keepsSocket(st) ==
    LET st1 == ws_stopPingInterval(st)
        st2 == IF st1.ws # NULL THEN SocketClose(st1, st1.ws, 1000) ELSE st1
    IN  [st2 EXCEPT !.connectionStatus.connected = FALSE, !.reconnectAttempts = 0]

ws_disconnect(st) ==
    LET st1 == ws_stopPingInterval(st)
        st2 == IF st1.ws # NULL
               THEN [SocketClose(st1, st1.ws, 1000) EXCEPT !.ws = NULL]
               ELSE st1
    IN  [st2 EXCEPT !.connectionStatus.connected = FALSE, !.reconnectAttempts = 0]

\* reconnect that keeps the attempt counter
ws_reconnect_keepsCount(st, throws) ==
    IF st.connectionStatus.connected THEN Return(st, TRUE)
    ELSE ws_initWebSocket([st EXCEPT !.options = ws_storedOptions(st)], throws)

ws_reconnect(st, throws) ==
    IF st.connectionStatus.connected THEN Return(st, TRUE)
    ELSE ws_initWebSocket([st EXCEPT !.reconnectAttempts = 0,
                                     !.options = ws_storedOptions(st)], throws)

\* ====================================================== src/unnamed/part_000

p0_stopPingInterval(st) == [st EXCEPT !.pingInterval = NULL]

p0_startPingInterval(st) ==
    [p0_stopPingInterval(st) EXCEPT !.pingInterval = st.now + PING_INTERVAL]

p0_updateConnectionStatus(st, status) == [st EXCEPT !.connectionStatus = status]

Min(a, b) == IF a <= b THEN a ELSE b

\* attemptReconnect without the cap on its delay
p0_attemptReconnect_uncapped(st) ==
    IF st.reconnectAttempts >= MAX_RECONNECT_ATTEMPTS
    THEN Emit(st, [ev |-> "notify", text |-> "Cannot connect to server"])
    ELSE LET st1 == [st EXCEPT !.reconnectAttempts = @ + 1]
             delay == 1000 * 2 ^ st1.reconnectAttempts
         IN  Emit([p0_updateConnectionStatus(st1, "connecting") EXCEPT !.timers = @ + 1],
                  [ev |-> "setTimeout", delay |-> delay])

p0_attemptReconnect(st) ==
    IF st.reconnectAttempts >= MAX_RECONNECT_ATTEMPTS
    THEN Emit(st, [ev |-> "notify", text |-> "Cannot connect to server"])
    ELSE LET st1 == [st EXCEPT !.reconnectAttempts = @ + 1]
             delay == Min(1000 * 2 ^ st1.reconnectAttempts, 30000)
         IN  Emit([p0_updateConnectionStatus(st1, "connecting") EXCEPT !.timers = @ + 1],
                  [ev |-> "setTimeout", delay |-> delay])

\* message._timestamp = ..; message._retryCount = 0; messageQueue.push(message):
\* the fields are set on the caller's object, which is what the queue holds
p0_enqueue(st, message) ==
    [st EXCEPT !.messageQueue =
        Append(@, [_timestamp |-> st.now, _retryCount |-> 0] @@ message)]

p0_sendMessage(st, message, queueIfOffline) ==
    IF ~IsObject(message) THEN Return(st, FALSE)
    ELSE IF ~HasType(message) THEN Return(st, FALSE)
    ELSE IF ~IsOpen(st)
    THEN LET st1 == IF queueIfOffline THEN p0_enqueue(st, message) ELSE st
             st2 == IF st1.connectionStatus # "connecting"
                    THEN p0_attemptReconnect(st1) ELSE st1
         IN  Return(st2, FALSE)
    ELSE IF message.ser
    THEN Return(Emit(st, [ev |-> "send", sock |-> st.ws, msg |-> message]), TRUE)
    ELSE LET st1 == IF queueIfOffline THEN p0_enqueue(st, message) ELSE st
         IN  Return(st1, FALSE)

\* a drain that takes the newest entry first
RECURSIVE p0_processMessageQueue_newestFirst(_)
p0_processMessageQueue_newestFirst(st) ==
    IF Len(st.messageQueue) = 0 THEN st
    ELSE LET message == st.messageQueue[Len(st.messageQueue)]
             st0 == [st EXCEPT !.messageQueue = SubSeq(@, 1, Len(@) - 1)]
         IN  IF message._retryCount > 3
             THEN p0_processMessageQueue_newestFirst(
                      Emit(st0, [ev |-> "discard", why |-> "retries", msg |-> Strip(message)]))
             ELSE IF st.now - message._timestamp > 300000
             THEN p0_processMessageQueue_newestFirst(
                      Emit(st0, [ev |-> "discard", why |-> "age", msg |-> Strip(message)]))
             ELSE LET st1 == p0_sendMessage(st0, message, FALSE) IN
                  IF ~st1.ret
                  THEN [st1 EXCEPT !.messageQueue =
                            Append(@, [message EXCEPT !._retryCount = @ + 1])]
                  ELSE p0_processMessageQueue_newestFirst(st1)

\* a drain that puts a message whose send failed back as it was
RECURSIVE p0_processMessageQueue_noCount(_)
p0_processMessageQueue_noCount(st) ==
    IF Len(st.messageQueue) = 0 THEN st
    ELSE LET message == Head(st.messageQueue)
             st0 == [st EXCEPT !.messageQueue = Tail(@)]
         IN  IF message._retryCount > 3
             THEN p0_processMessageQueue_noCount(
                      Emit(st0, [ev |-> "discard", why |-> "retries", msg |-> Strip(message)]))
             ELSE IF st.now - message._timestamp > 300000
             THEN p0_processMessageQueue_noCount(
                      Emit(st0, [ev |-> "discard", why |-> "age", msg |-> Strip(message)]))
             ELSE LET st1 == p0_sendMessage(
                                 Emit(st0, [ev |-> "attempt", msg |-> Strip(message)]),
                                 message, FALSE) IN
                  IF ~st1.ret
                  THEN [st1 EXCEPT !.messageQueue = <<message>> \o @]
                  ELSE p0_processMessageQueue_noCount(st1)

\* a drain that goes on after a failed send instead of stopping
RECURSIVE p0_processMessageQueue_noBreak(_)
p0_processMessageQueue_noBreak(st) ==
    IF Len(st.messageQueue) = 0 THEN st
    ELSE LET message == Head(st.messageQueue)
             st0 == [st EXCEPT !.messageQueue = Tail(@)]
         IN  IF message._retryCount > 3
             THEN p0_processMessageQueue_noBreak(
                      Emit(st0, [ev |-> "discard", why |-> "retries", msg |-> Strip(message)]))
             ELSE IF st.now - message._timestamp > 300000
             THEN p0_processMessageQueue_noBreak(
                      Emit(st0, [ev |-> "discard", why |-> "age", msg |-> Strip(message)]))
             ELSE LET st1 == p0_sendMessage(
                                 Emit(st0, [ev |-> "attempt", msg |-> Strip(message)]),
                                 message, FALSE) IN
                  IF ~st1.ret
                  THEN p0_processMessageQueue_noBreak(
                           [st1 EXCEPT !.messageQueue =
                               <<[message EXCEPT !._retryCount = @ + 1]>> \o @])
                  ELSE p0_processMessageQueue_noBreak(st1)

RECURSIVE p0_processMessageQueue(_)
p0_processMessageQueue(st) ==
    IF Len(st.messageQueue) = 0 THEN st
    ELSE LET message == Head(st.messageQueue)
             st0 == [st EXCEPT !.messageQueue = Tail(@)]
         IN  IF message._retryCount > 3
             THEN p0_processMessageQueue(
                      Emit(st0, [ev |-> "discard", why |-> "retries", msg |-> Strip(message)]))
             ELSE IF st.now - message._timestamp > 300000
             THEN p0_processMessageQueue(
                      Emit(st0, [ev |-> "discard", why |-> "age", msg |-> Strip(message)]))
             ELSE LET st1 == p0_sendMessage(
                                 Emit(st0, [ev |-> "attempt", msg |-> Strip(message)]),
                                 message, FALSE) IN
                  IF ~st1.ret
                  THEN [st1 EXCEPT !.messageQueue =
                            <<[message EXCEPT !._retryCount = @ + 1]>> \o @]
                  ELSE p0_processMessageQueue(st1)

\* connectWebSocket; throws: the WebSocket constructor throws
p0_connectWebSocket(st, throws) ==
    LET st1 == IF IsOpen(st) THEN SocketClose(st, st.ws, 1005) ELSE st
        st2 == p0_updateConnectionStatus(st1, "connecting")
    IN  IF throws
        THEN Return(p0_updateConnectionStatus(st2, "error"), FALSE)
        ELSE Return(NewSocket(st2), TRUE)

p0_onclose(st, code) ==
    LET st1 == p0_stopPingInterval(p0_updateConnectionStatus(st, "disconnected"))
    IN  IF code # 1000 /\ st1.reconnectAttempts < MAX_RECONNECT_ATTEMPTS
        THEN p0_attemptReconnect(st1)
        ELSE st1

p0_onerror(st) == p0_updateConnectionStatus(st, "error")

p0_pingCallback(st) ==
    LET st1 == IF IsOpen(st) THEN p0_sendMessage(st, Ping(st.now), FALSE) ELSE st
    IN  [st1 EXCEPT !.pingInterval = st.now + PING_INTERVAL]

p0_addEventListener(st, event, callback) ==
    [st EXCEPT !.eventListeners[event] = Append(@, callback)]

\* eventListeners[event] = eventListeners[event].filter(cb => cb !== callback)
p0_removeEventListener(st, event, callback) ==
    [st EXCEPT !.eventListeners[event] = SelectSeq(@, LAMBDA cb : cb # callback)]

\* forEach over the array that was registered when the loop started: filter
\* puts a new array in eventListeners and leaves this one as it is
RECURSIVE p0_forEach(_, _, _, _, _, _)
p0_forEach(st, event, data, acts, k, array) ==
    IF k > Len(array) THEN st
    ELSE LET callback == array[k]
             st1 == Emit(st, [ev |-> "callback", event |-> event, cb |-> callback,
                              data |-> data])
             st2 == IF acts[callback].does = "throw"
                    THEN Emit(st1, [ev |-> "caught", event |-> event, cb |-> callback])
                    ELSE IF acts[callback].does = "remove"
                    THEN p0_removeEventListener(st1, event, acts[callback].cb)
                    ELSE IF acts[callback].does = "send"
                    THEN p0_sendMessage(st1, FromSubscriber, TRUE)
                    ELSE st1
         IN  p0_forEach(st2, event, data, acts, k + 1, array)

p0_triggerEvent(st, event, data, acts) ==
    p0_forEach(Emit(st, [ev |-> "triggerEvent", event |-> event, data |-> data]),
               event, data, acts, 1, st.eventListeners[event])

\* sendHelloMessage(isAdmin, adminToken, playerId)
p0_sendHelloMessage(st, opts) ==
    p0_sendMessage(st,
                   Hello @@ [playerId |-> IF opts.playerId # NULL THEN opts.playerId
                                          ELSE Generated,
                             isAdmin |-> opts.isAdmin,
                             token |-> IF opts.isAdmin /\ opts.adminToken # NULL
                                       THEN opts.adminToken ELSE NULL],
                   TRUE)

\* socket.onopen of socket s; acts: what each subscriber of 'onopen' does
p0_onopen(st, s, acts) ==
    LET st1 == [st EXCEPT !.sockets[s].readyState = "OPEN",
                          !.connectionStatus = "connected",
                          !.reconnectAttempts = 0]
        st2 == p0_triggerEvent(st1, "onopen", [type |-> "open"], acts)
        st3 == p0_startPingInterval(st2)
        st4 == p0_sendHelloMessage(st3, st.sockets[s].opts)
    IN  p0_processMessageQueue(st4)

p0_handleUnknownMessage(st, message, acts) ==
    p0_triggerEvent(st, "unknown_message", message, acts)

\* the cases of the switch in handleWebSocketMessage
p0_recognized(type) == type = "number_called"

\* handleWebSocketMessage for an event whose data parses; message: the value
\* of JSON.parse(event.data)
p0_handleWebSocketMessage(st, event, acts) ==
    LET message == event.data
    IN  IF p0_recognized(message.type)
        THEN p0_triggerEvent(st, "number_called", message, acts)
        ELSE p0_handleUnknownMessage(st, message, acts)

\* socket.onmessage; the subscribers of 'onmessage' get the event itself
p0_onmessage(st, event, acts) ==
    p0_triggerEvent(p0_handleWebSocketMessage(st, event, acts), "onmessage", event, acts)

p0_disconnect(st) ==
    LET st1 == p0_stopPingInterval(st)
        st2 == IF st1.ws # NULL
               THEN [SocketClose(st1, st1.ws, 1000) EXCEPT !.ws = NULL]
               ELSE st1
    IN  p0_updateConnectionStatus(st2, "disconnected")

\* the options connectWebSocket is called with by reconnect() and by the
\* timer of attemptReconnect: gameState.isAdmin and gameState.playerId, which
\* connectWebSocket does not set (false and null until the server registers
\* the player), and no token
p0_storedOptions == [playerId |-> NULL, isAdmin |-> FALSE, adminToken |-> NULL]

\* the setTimeout callback of attemptReconnect
p0_reconnectCallback(st, throws) ==
    p0_connectWebSocket([st EXCEPT !.options = p0_storedOptions], throws)

p0_reconnect(st, throws) ==
    IF st.connectionStatus = "connected" THEN Return(st, TRUE)
    ELSE p0_connectWebSocket([st EXCEPT !.reconnectAttempts = 0,
                                        !.options = p0_storedOptions], throws)

\* =============================================================== src/admin.js
\* admin.js has no message queue, no event system and no disconnect; its
\* reconnectAttempts is a constant 0

\* sendMessage: the message is not validated, and JSON.stringify accepts
\* what is no object
ad_sendMessage(st, message) ==
    IF ~IsOpen(st)
    THEN Return(Emit(st, [ev |-> "notify", text |-> "Not connected to server"]), FALSE)
    ELSE IF ~IsObject(message) \/ message.ser
    THEN Return(Emit(st, [ev |-> "send", sock |-> st.ws, msg |-> message]), TRUE)
    ELSE Return(Emit(st, [ev |-> "notify", text |-> "Failed to send message"]), FALSE)

\* startPingInterval: the handle of the interval is not kept; pingInterval
\* is when the interval set last is due next
ad_startPingInterval(st) ==
    Emit([st EXCEPT !.pingInterval = st.now + PING_INTERVAL],
         [ev |-> "setInterval", delay |-> PING_INTERVAL])

ad_updateConnectionStatus(st, status) == [st EXCEPT !.connectionStatus = status]

\* connectWebSocket(adminToken = null); throws: the WebSocket constructor
\* throws
ad_connectWebSocket(st, throws) ==
    LET st1 == IF IsOpen(st) THEN SocketClose(st, st.ws, 1005) ELSE st
    IN  IF throws
        THEN Return(Emit(st1, [ev |-> "notify", text |-> "Failed to connect to server"]),
                    FALSE)
        ELSE Return(NewSocket(st1), TRUE)

\* socket.onopen: the hello is sent if connectWebSocket was given a token
ad_onopen(st, s) ==
    LET adminToken == st.sockets[s].opts.adminToken
        st1 == ad_updateConnectionStatus([st EXCEPT !.sockets[s].readyState = "OPEN"],
                                         "connected")
        st2 == IF adminToken # NULL
               THEN ad_sendMessage(st1, Hello @@ [playerId |-> Generated, isAdmin |-> TRUE,
                                                  token |-> adminToken])
               ELSE st1
    IN  ad_startPingInterval(st2)

\* the setTimeout callback of attemptReconnect: connectWebSocket()
ad_reconnectCallback(st, throws) ==
    ad_connectWebSocket([st EXCEPT !.options = NoOptions], throws)

\* attemptReconnect: a fixed delay of three seconds
ad_attemptReconnect(st) ==
    IF st.reconnectAttempts >= MAX_RECONNECT_ATTEMPTS
    THEN Emit(st, [ev |-> "notify", text |-> "Failed to reconnect"])
    ELSE Emit([st EXCEPT !.timers = @ + 1], [ev |-> "setTimeout", delay |-> 3000])

\* handleWebSocketClose without its test of the close code
ad_handleWebSocketClose_anyCode(st, code) ==
    ad_attemptReconnect(
        Emit(ad_updateConnectionStatus(st, "disconnected"),
             [ev |-> "notify", text |-> "Connection lost. Reconnecting..."]))

ad_handleWebSocketClose(st, code) ==
    LET st1 == ad_updateConnectionStatus(st, "disconnected")
    IN  IF code # 1000
        THEN ad_attemptReconnect(
                 Emit(st1, [ev |-> "notify", text |-> "Connection lost. Reconnecting..."]))
        ELSE st1

ad_handleWebSocketError(st) == ad_updateConnectionStatus(st, "error")

\* the cases of the switch in handleWebSocketMessage
ad_recognized(type) == type = "number_called"

\* handleWebSocketMessage for an event whose data parses: a type without a
\* case is written to the console
ad_handleWebSocketMessage(st, event) ==
    LET message == event.data
    IN  IF ad_recognized(message.type) THEN st
        ELSE Emit(st, [ev |-> "log", text |-> "Unhandled message type",
                       type |-> message.type])

\* ================================================================== the system

connect(st, throws) ==
    IF st.impl = "websocket" THEN ws_initWebSocket(st, throws)
    ELSE IF st.impl = "admin" THEN ad_connectWebSocket(st, throws)
    ELSE p0_connectWebSocket(st, throws)

reconnectCallback(st, throws) ==
    IF st.impl = "websocket" THEN ws_reconnectCallback(st, throws)
    ELSE IF st.impl = "admin" THEN ad_reconnectCallback(st, throws)
    ELSE p0_reconnectCallback(st, throws)

sendMessage(st, message, queueIfOffline) ==
    IF st.impl = "websocket" THEN ws_sendMessage(st, message, queueIfOffline)
    ELSE IF st.impl = "admin" THEN ad_sendMessage(st, message)
    ELSE p0_sendMessage(st, message, queueIfOffline)

disconnect(st) ==
    IF st.impl = "websocket" THEN ws_disconnect(st) ELSE p0_disconnect(st)

reconnect(st, throws) ==
    IF st.impl = "websocket" THEN ws_reconnect(st, throws) ELSE p0_reconnect(st, throws)

onopen(st, s, acts) ==
    IF st.impl = "websocket" THEN ws_onopen(st, s, acts)
    ELSE IF st.impl = "admin" THEN ad_onopen(st, s)
    ELSE p0_onopen(st, s, acts)

onclose(st, code) ==
    IF st.impl = "websocket" THEN ws_onclose(st, code)
    ELSE IF st.impl = "admin" THEN ad_handleWebSocketClose(st, code)
    ELSE p0_onclose(st, code)

onerror(st) ==
    IF st.impl = "websocket" THEN ws_onerror(st)
    ELSE IF st.impl = "admin" THEN ad_handleWebSocketError(st)
    ELSE p0_onerror(st)

addEventListener(st, event, callback) ==
    IF st.impl = "websocket" THEN ws_addEventListener(st, event, callback)
    ELSE p0_addEventListener(st, event, callback)

removeEventListener(st, event, callback) ==
    IF st.impl = "websocket" THEN ws_removeEventListener(st, event, callback)
    ELSE p0_removeEventListener(st, event, callback)

onmessage(st, message, acts) ==
    IF st.impl = "websocket" THEN ws_onmessage(st, message, acts)
    ELSE IF st.impl = "admin" THEN ad_handleWebSocketMessage(st, [data |-> message])
    ELSE p0_onmessage(st, [data |-> message], acts)

pingCallback(st, throws) ==
    IF st.impl = "websocket" THEN ws_pingCallback(st, throws) ELSE p0_pingCallback(st)

HasEvent(log, kind) == \E i \in 1..Len(log) : log[i].ev = kind
Events(log, kind) == SelectSeq(log, LAMBDA e : e.ev = kind)
LastOp(log) == IF Len(log) = 0 THEN "none" ELSE log[1].op

\* log is the record of a disconnect() that closed an open socket
ClosedOpen(log) ==
    /\ LastOp(log) = "disconnect"
    /\ \E i \in 1..Len(log) : log[i].ev = "close" /\ log[i].was = "OPEN"

Impls == {"websocket", "part_000"}
\* the three files that open a WebSocket
Files == Impls \cup {"admin"}
Start(i, w) ==
    /\ impl = i
    /\ scope = w
    /\ sockets = [s \in Slots |-> ClosedSocket]
    /\ ws = NULL
    /\ reconnectAttempts = 0
    /\ connectionStatus = IF impl = "websocket"
                          THEN [connected |-> FALSE, playerId |-> NULL, isAdmin |-> FALSE]
                          ELSE "disconnected"
    /\ pingInterval = NULL
    /\ lastPong = 0
    /\ messageQueue = <<>>
    /\ eventListeners = [e \in EventTypes \cup {OpenEvent} |-> <<>>]
    /\ timers = 0
    /\ now = 0
    /\ nextId = 1
    /\ io = <<>>
    /\ lastConfirm = 0
    /\ autoAttempts = 0
    /\ delays = <<>>
    /\ heap = NoHeap
    /\ intervals = 0
    /\ handed = {}

Init == \E i \in Impls : Start(i, {})

\* the application calls initWebSocket (websocket.js) / connectWebSocket (part_000)
Connect(throws) ==
    /\ \E options \in Options :
          Commit(Returned(connect([Call("connect") EXCEPT !.options = options], throws)))
    /\ autoAttempts' = 0
    /\ UNCHANGED <<nextId, lastConfirm>>

\* the application calls sendMessage(message)
Send(message) ==
    /\ (IsObject(message) /\ HasType(message)) => nextId <= MaxMsgs
    /\ Commit(Returned(sendMessage(
           [Cur EXCEPT !.io = <<[ev |-> "call", op |-> "sendMessage", msg |-> message,
                                 open |-> IsOpen(Cur)]>>],
           message, TRUE)))
    /\ nextId' = IF IsObject(message) /\ HasType(message) THEN nextId + 1 ELSE nextId
    /\ UNCHANGED <<lastConfirm, autoAttempts>>

Disconnect ==
    /\ Commit(disconnect([Call("disconnect") EXCEPT
                             !.io = <<[ev |-> "call", op |-> "disconnect",
                                       open |-> IsOpen(Cur), again |-> ClosedOpen(io)]>>]))
    /\ autoAttempts' = 0
    /\ UNCHANGED <<nextId, lastConfirm>>

Reconnect(throws) ==
    /\ Commit(Returned(reconnect(
           [Cur EXCEPT !.io = <<[ev |-> "call", op |-> "reconnect", open |-> IsOpen(Cur),
                                 attempts |-> reconnectAttempts]>>],
           throws)))
    /\ autoAttempts' = 0
    /\ UNCHANGED <<nextId, lastConfirm>>

\* a timer set by attemptReconnection / attemptReconnect expires
ReconnectTimer(throws) ==
    /\ timers > 0
    /\ LET st == reconnectCallback(
                     [Call("reconnectTimer") EXCEPT
                         !.timers = @ - 1,
                         !.by = IF "identity" \in scope THEN "timer" ELSE "caller"],
                     throws)
       IN  /\ Commit(st)
           /\ autoAttempts' = Track("autoAttempts",
                                    IF HasEvent(st.io, "new")
                                    THEN Min(autoAttempts + 1, MAX_RECONNECT_ATTEMPTS + 1)
                                    ELSE autoAttempts,
                                    0)
    /\ UNCHANGED <<nextId, lastConfirm>>

\* the interval set by startPingInterval is due
Heartbeat(throws) ==
    /\ pingInterval # NULL
    /\ now >= pingInterval
    /\ Commit(pingCallback(Call("heartbeat"), throws))
    /\ UNCHANGED <<nextId, lastConfirm, autoAttempts>>

\* what the subscribers of the open event can do when it is raised
OpenActs ==
    IF eventListeners[OpenEvent] = <<>> THEN {NoCallbacks}
    ELSE [Callbacks -> OpenBehaviours]

\* the server accepts the connection of socket s
OnOpen(s) ==
    /\ sockets[s].readyState = "CONNECTING"
    /\ \E acts \in OpenActs : Commit(onopen(CallOn("onopen", s), s, acts))
    /\ lastConfirm' = Track("lastConfirm", now, 0)
    /\ autoAttempts' = 0
    /\ UNCHANGED nextId

\* the server starts the closing handshake on socket s with a close code
ServerClose(s, code) ==
    /\ sockets[s].readyState = "OPEN"
    /\ sockets' = [sockets EXCEPT ![s].readyState = "CLOSING", ![s].code = code]
    /\ io' = Seen(<<[ev |-> "call", op |-> "serverClose", sock |-> s]>>)
    /\ UNCHANGED <<impl, ws, reconnectAttempts, connectionStatus, pingInterval, lastPong,
                   messageQueue, eventListeners, timers, now, nextId, lastConfirm,
                   autoAttempts, delays, heap, intervals, handed, scope>>

\* the closing handshake of socket s completes: its close event
CloseEvent(s) ==
    /\ sockets[s].readyState = "CLOSING"
    /\ Commit(onclose([CallOn("onclose", s) EXCEPT !.sockets[s] = ClosedSocket,
                         !.io = Append(@, [ev |-> "closed", sock |-> s,
                                           code |-> sockets[s].code])],
                      sockets[s].code))
    /\ UNCHANGED <<nextId, lastConfirm, autoAttempts>>

\* the connection of socket s is lost: its error event, then its close event
ConnectionLost(s) ==
    /\ sockets[s].readyState \in {"CONNECTING", "OPEN", "CLOSING"}
    /\ Commit(onclose(onerror([CallOn("onclose", s) EXCEPT !.sockets[s] = ClosedSocket,
                                 !.io = Append(@, [ev |-> "closed", sock |-> s,
                                                   code |-> 1006])]),
                      1006))
    /\ UNCHANGED <<nextId, lastConfirm, autoAttempts>>

\* a pong arrives on the current socket (handlePong / case 'pong')
OnPong ==
    /\ IsOpen(Cur)
    /\ lastConfirm' = Track("lastConfirm", now, 0)
    /\ io' = Seen(<<[ev |-> "call", op |-> "onmessage", sock |-> ws, type |-> "pong"]>>)
    /\ UNCHANGED <<impl, sockets, ws, reconnectAttempts, connectionStatus, pingInterval,
                   lastPong, messageQueue, eventListeners, timers, now, nextId,
                   autoAttempts, delays, heap, intervals, handed, scope>>

\* time passes; a timer fires no earlier than its delay, so the clock can move
\* past the time a heartbeat is due (a throttled or suspended page)
Tick(d) ==
    /\ Ticks(now + d) <= MaxTicks
    /\ now' = now + d
    /\ io' = Seen(<<[ev |-> "call", op |-> "tick"]>>)
    /\ UNCHANGED <<impl, sockets, ws, reconnectAttempts, connectionStatus, pingInterval,
                   lastPong, messageQueue, eventListeners, timers, nextId, lastConfirm,
                   autoAttempts, delays, heap, intervals, handed, scope>>

\* the application calls getConnectionStatus() and keeps what it returns
GetConnectionStatus ==
    /\ impl = "websocket"
    /\ Commit(ws_getConnectionStatus(Call("getConnectionStatus")))
    /\ UNCHANGED <<nextId, lastConfirm, autoAttempts>>

\* the application assigns to a property of the value it keeps: to connected,
\* or to the type of its lastMessage
Properties == {"connected", "lastMessage.type"}
Mutate(property) ==
    /\ heap.snapshot # <<>>
    /\ property = "lastMessage.type" => heap.snapshot[1].lastMessage # NULL
    /\ Commit([Call("mutate") EXCEPT
                  !.heap = IF property = "connected"
                           THEN [@ EXCEPT !.snapshot[1].connected = ~@]
                           ELSE [@ EXCEPT !.objects[heap.snapshot[1].lastMessage].type =
                                              "changed"]])
    /\ UNCHANGED <<nextId, lastConfirm, autoAttempts>>

\* the application calls clearMessageQueue(), which websocket.js exports
ClearMessageQueue ==
    /\ impl = "websocket"
    /\ Commit(ws_clearMessageQueue(Call("clearMessageQueue")))
    /\ UNCHANGED <<nextId, lastConfirm, autoAttempts>>

\* the application registers a callback for an event type
AddEventListener(event, callback) ==
    /\ Len(eventListeners[event]) < MaxListeners
    /\ Commit(addEventListener(
           [Cur EXCEPT !.io = <<[ev |-> "call", op |-> "addEventListener",
                                 event |-> event, cb |-> callback]>>],
           event, callback))
    /\ UNCHANGED <<nextId, lastConfirm, autoAttempts>>

RemoveEventListener(event, callback) ==
    /\ Commit(removeEventListener(
           [Cur EXCEPT !.io = <<[ev |-> "call", op |-> "removeEventListener",
                                 event |-> event, cb |-> callback]>>],
           event, callback))
    /\ UNCHANGED <<nextId, lastConfirm, autoAttempts>>

\* a message of the given type arrives on the open socket s; acts: what each
\* callback does when it is invoked in this step; the record of the step
\* starts with the listeners registered when it started
OnMessage(s, type, acts) ==
    /\ sockets[s].readyState = "OPEN"
    /\ Commit(onmessage(
           [Cur EXCEPT !.io = <<[ev |-> "call", op |-> "onmessage", sock |-> s,
                                 type |-> type, listeners |-> eventListeners]>>],
           [type |-> type], acts))
    /\ UNCHANGED <<nextId, lastConfirm, autoAttempts>>

Serializable == IF "unserializable" \in scope THEN BOOLEAN ELSE {TRUE}
Inputs == {NotAnObject, NoType} \cup {UserMessage(nextId, s) : s \in Serializable}

\* new WebSocket(url) is given the module's own well-formed wss: URL and does
\* not throw
CtorThrows == {FALSE}
\* ws.close(1001, ..): InvalidAccessError in a browser, a close elsewhere
CloseThrows == BOOLEAN
\* the close codes a server sends
ServerCodes == {1000, 1001}

Next ==
    \/ \E throws \in CtorThrows : Connect(throws)
    \/ \E message \in Inputs : Send(message)
    \/ Disconnect
    \/ \E throws \in CtorThrows : Reconnect(throws)
    \/ \E throws \in CtorThrows : ReconnectTimer(throws)
    \/ \E throws \in CloseThrows : Heartbeat(throws)
    \/ \E s \in Slots : OnOpen(s)
    \/ \E s \in Slots, code \in ServerCodes : ServerClose(s, code)
    \/ \E s \in Slots : CloseEvent(s)
    \/ \E s \in Slots : ConnectionLost(s)
    \/ OnPong
    \/ \E d \in TimeSteps : Tick(d)

Spec == Init /\ [][Next]_vars

\* the event system: subscribers come and go, a connection opens, messages
\* arrive on it; no connection is lost
NextEvents ==
    \/ \E throws \in CtorThrows : Connect(throws)
    \/ \E s \in Slots : OnOpen(s)
    \/ \E e \in EventTypes, c \in Callbacks : AddEventListener(e, c)
    \/ \E e \in EventTypes, c \in Callbacks : RemoveEventListener(e, c)
    \/ \E s \in Slots, type \in MessageTypes, acts \in [Callbacks -> Behaviours] :
          OnMessage(s, type, acts)

\* the scenarios the properties below are stated for: the same system, with
\* the operations and observers a claim reads named in scope
SpecW1 == Start("websocket", {"onopen", "connect", "heartbeat", "lastConfirm"}) /\ [][Next]_vars
SpecW2 == Start("websocket", {"autoAttempts"}) /\ [][Next]_vars
SpecP1 == Start("part_000", {"onopen", "connect"}) /\ [][Next]_vars
SpecB1 == (\E i \in Impls : Start(i, {"disconnect", "reconnectTimer"})) /\ [][Next]_vars
SpecB2 == (\E i \in Impls : Start(i, {"sendMessage"})) /\ [][Next]_vars
SpecP2 == Start("part_000", {"delays"}) /\ [][Next]_vars
SpecW3 == Start("websocket", {"onclose"}) /\ [][Next]_vars
SpecB3 == (\E i \in Impls : Start(i, {"reconnect", "onclose"})) /\ [][Next]_vars
SpecB4 == (\E i \in Impls : Start(i, {"onopen"})) /\ [][Next]_vars
SpecB5 == (\E i \in Impls : Start(i, {"onopen", "unserializable"})) /\ [][Next]_vars

\* messages arriving while subscribers come and go, in websocket.js and in both
SpecE1 == Start("websocket", {"onmessage"}) /\ [][NextEvents]_vars
SpecE2 == (\E i \in Impls : Start(i, {"onmessage"})) /\ [][NextEvents]_vars

\* the three files side by side: connections are made, open, close and are
\* lost, reconnect timers fire and messages arrive, with no subscriber
\* registered; websocket.js and part_000 also export disconnect
NextFiles ==
    \/ \E throws \in CtorThrows : Connect(throws)
    \/ \E throws \in CtorThrows : ReconnectTimer(throws)
    \/ \E s \in Slots : OnOpen(s)
    \/ \E s \in Slots, code \in ServerCodes : ServerClose(s, code)
    \/ \E s \in Slots : CloseEvent(s)
    \/ \E s \in Slots : ConnectionLost(s)
    \/ \E s \in Slots, type \in MessageTypes : OnMessage(s, type, NoCallbacks)
    \/ impl # "admin" /\ Disconnect

\* the three files with their close-event steps, and with their message
\* steps, observed
SpecF1 == (\E i \in Files : Start(i, {"onclose"})) /\ [][NextFiles]_vars
SpecF2 == (\E i \in Files : Start(i, {"onmessage"})) /\ [][NextFiles]_vars

\* the three files sending: the application passes messages while
\* connections are made, open and are lost and time passes
NextSend ==
    \/ \E throws \in CtorThrows : Connect(throws)
    \/ \E throws \in CtorThrows : ReconnectTimer(throws)
    \/ \E s \in Slots : OnOpen(s)
    \/ \E s \in Slots : ConnectionLost(s)
    \/ \E message \in Inputs : Send(message)
    \/ \E d \in TimeSteps : Tick(d)

SpecF3 == (\E i \in Files : Start(i, {"sendMessage"})) /\ [][NextSend]_vars
\* the queue between connections: messages are passed, the application
\* disconnects, connects again and clears the queue
NextQueue ==
    \/ \E throws \in CtorThrows : Connect(throws)
    \/ \E throws \in CtorThrows : ReconnectTimer(throws)
    \/ \E message \in Inputs : Send(message)
    \/ Disconnect
    \/ ClearMessageQueue
    \/ \E s \in Slots : OnOpen(s)
    \/ \E s \in Slots : CloseEvent(s)
    \/ \E s \in Slots : ConnectionLost(s)
    \/ \E d \in TimeSteps : Tick(d)

SpecB7 == (\E i \in Impls : Start(i, {"disconnect", "clearMessageQueue", "onopen"}))
              /\ [][NextQueue]_vars
\* connections opening with subscribers of the open event
NextOpen ==
    \/ \E throws \in CtorThrows : Connect(throws)
    \/ \E throws \in CtorThrows : ReconnectTimer(throws)
    \/ \E message \in Inputs : Send(message)
    \/ \E c \in Callbacks : AddEventListener(OpenEvent, c)
    \/ \E s \in Slots : OnOpen(s)
    \/ \E s \in Slots : ConnectionLost(s)

SpecB9 == (\E i \in Impls : Start(i, {"onopen"})) /\ [][NextOpen]_vars
SpecB8 == (\E i \in Impls : Start(i, {"disconnect", "sendMessage"}))
              /\ [][NextQueue]_vars
\* websocket.js and part_000 sending, also messages JSON.stringify rejects
SpecB6 == (\E i \in Impls : Start(i, {"sendMessage", "unserializable"}))
              /\ [][NextSend]_vars

\* ==================================================================== claims

ProgramVars == <<sockets, ws, reconnectAttempts, connectionStatus, pingInterval, lastPong,
                 messageQueue, timers>>

Increasing(seq) == \A i, j \in 1..Len(seq) : i < j => seq[i] < seq[j]
Ids(seq) == [i \in 1..Len(seq) |-> seq[i].id]
\* the application's messages (id > 0) among the entries of a queue
QueuedIds(q) == Ids(SelectSeq(q, LAMBDA m : m.id > 0))
\* the application's messages a step handed to send, in the order of the calls
SentIds(log) ==
    LET user(e) == e.ev = "send" /\ e.msg.id > 0
        sent == SelectSeq(log, user)
    IN  [i \in 1..Len(sent) |-> sent[i].msg.id]
\* the application's messages a step handed to send or discarded, in order
HandledIds(log) ==
    LET user(e) == e.ev \in {"send", "discard"} /\ e.msg.id > 0
        handled == SelectSeq(log, user)
    IN  [i \in 1..Len(handled) |-> handled[i].msg.id]
ReturnValue(log) == log[Len(log)].value

\* C1: websocket.js hands the messages queued while no socket was open to
\* ws.send in the order of their sendMessage calls when the connection opens
\* (ids count the sendMessage calls, so: in increasing id)
C1_DrainKeepsEnqueueOrder ==
    LastOp(io) = "onopen" => Increasing(SentIds(io))

C3_NoSixthAutomaticAttempt ==
    autoAttempts <= MAX_RECONNECT_ATTEMPTS

\* C4: the heartbeat callback of websocket.js that runs on an open socket
\* more than 2 x PING_INTERVAL after the last confirmation closes that socket
C4_HeartbeatClosesSilentSocket ==
    [][(/\ LastOp(io') = "heartbeat"
        /\ IsOpen(Cur)
        /\ now - lastConfirm > 2 * PING_INTERVAL)
       => \E i \in 1..Len(io') : io'[i].ev = "close" /\ io'[i].sock = ws]_vars

\* C5: a liveness timeout with reconnectAttempts < MAX_RECONNECT_ATTEMPTS is
\* handled as an unplanned closure: the heartbeat callback leaves the socket
\* closing with a code on which its close event schedules a reconnect
C5_LivenessTimeoutReconnects ==
    [][(/\ LastOp(io') = "heartbeat"
        /\ IsOpen(Cur)
        /\ now - lastConfirm > 2 * PING_INTERVAL
        /\ reconnectAttempts < MAX_RECONNECT_ATTEMPTS)
       => /\ sockets'[ws].readyState = "CLOSING"
          /\ HasEvent(ws_onclose([Cur EXCEPT !.io = <<>>], sockets'[ws].code).io,
                      "setTimeout")]_vars

\* C6: disconnect() issues at most one close, with code 1000, sets no timer
\* and creates no socket; on an open connection it issues that close and
\* leaves the socket closing with code 1000; called again right after, it
\* issues no close and changes nothing
C6_DisconnectTwice ==
    /\ [](LastOp(io) = "disconnect" =>
            /\ ~HasEvent(io, "setTimeout") /\ ~HasEvent(io, "new")
            /\ Len(Events(io, "close")) <= 1
            /\ io[1].open => Len(Events(io, "close")) = 1
            /\ \A i \in 1..Len(io) : io[i].ev = "close" =>
                  /\ io[i].code = 1000
                  /\ io[i].was = "OPEN" =>
                         /\ sockets[io[i].sock].readyState = "CLOSING"
                         /\ sockets[io[i].sock].code = 1000
            /\ io[1].again => ~HasEvent(io, "close"))
    /\ [][(ClosedOpen(io) /\ LastOp(io') = "disconnect") => UNCHANGED ProgramVars]_vars

\* the second of two disconnect() calls in a row, the first on an open socket
C6_Witness ==
    LastOp(io) = "disconnect" /\ io[1].again

\* C7: a reconnect timer that was pending when disconnect() was called makes
\* no connection attempt when it expires (here: right after the call)
C7_DisconnectCancelsTimer ==
    [][(LastOp(io) = "disconnect" /\ LastOp(io') = "reconnectTimer")
       => ~HasEvent(io', "new")]_vars

\* C8: sendMessage returns false only for a message that is no object or has
\* no type
C8_FalseOnlyWhenMalformed ==
    (LastOp(io) = "sendMessage" /\ ~ReturnValue(io))
        => (~IsObject(io[1].msg) \/ ~HasType(io[1].msg))

\* C9: initWebSocket called while the module's socket is OPEN returns true,
\* closes and creates no socket, and leaves the socket reference,
\* connectionStatus, reconnectAttempts, the heartbeat timer, the queue (and
\* every other variable of the module) unchanged
C9_InitWhileOpenIsNoOp ==
    [][(LastOp(io') = "connect" /\ IsOpen(Cur))
       => /\ io'[1].open /\ Len(io') = 2 /\ ReturnValue(io') = TRUE
          /\ UNCHANGED ProgramVars]_vars

\* initWebSocket has been called on an open connection with a live heartbeat
C9_Witness ==
    /\ LastOp(io) = "connect" /\ io[1].open
    /\ pingInterval # NULL

\* C10: connectWebSocket called while the module's socket is OPEN returns
\* true, closes no socket and creates none
C10_ConnectWhileOpenIsNoOp ==
    (LastOp(io) = "connect" /\ io[1].open)
        => /\ ~HasEvent(io, "close") /\ ~HasEvent(io, "new")
           /\ ReturnValue(io) = TRUE

\* C11: in part_000 the n-th delay scheduled since the last open (or
\* reconnect() call) is min(1000 * 2^n, 30000) ms for n = 1..5, there is no
\* sixth, and the delays never decrease
C11_BackoffDelays ==
    /\ Len(delays) <= MAX_RECONNECT_ATTEMPTS
    /\ \A n \in 1..Len(delays) :
          delays[n] = IF 1000 * 2 ^ n <= 30000 THEN 1000 * 2 ^ n ELSE 30000
    /\ \A n \in 1..(Len(delays) - 1) : delays[n] <= delays[n + 1]

\* five attempts in a row have been scheduled, the last one at the cap
C11_Witness ==
    Len(delays) = MAX_RECONNECT_ATTEMPTS /\ delays[MAX_RECONNECT_ATTEMPTS] = 30000

\* C12: every delay a close event of websocket.js schedules is
\* min(RECONNECT_DELAY * 2^(attempt - 1), 30000) ms, so none exceeds 30000
\* (the exponent the code uses is taken, the smaller of the two readings)
C12_DelayCapped ==
    LastOp(io) = "onclose" =>
        \A i \in 1..Len(io) : io[i].ev = "setTimeout" =>
            /\ io[i].delay <= 30000
            /\ io[i].delay = Min(RECONNECT_DELAY * 2 ^ (reconnectAttempts - 1), 30000)

\* C13: a close event of websocket.js with an unplanned code (1006) that
\* finds reconnectAttempts = MAX_RECONNECT_ATTEMPTS surfaces 'Cannot reconnect
\* to server' exactly once
C13_GiveUpIsSurfaced ==
    [][(/\ LastOp(io') = "onclose"
        /\ reconnectAttempts = MAX_RECONNECT_ATTEMPTS
        /\ \E i \in 1..Len(io') : io'[i].ev = "closed" /\ io'[i].code = 1006)
       => Len(SelectSeq(io', LAMBDA e : e.ev = "notify"
                                          /\ e.text = "Cannot reconnect to server")) = 1]_vars

\* connectionStatus says the module is connected
Connected ==
    IF impl = "websocket" THEN connectionStatus.connected
    ELSE connectionStatus = "connected"

\* C14: reconnect() called with reconnectAttempts = MAX_RECONNECT_ATTEMPTS and
\* no connection sets reconnectAttempts to 0, creates exactly one socket,
\* sets no timer and returns true; and an unplanned close event (1006) that
\* finds reconnectAttempts below the maximum, as it is from then on, schedules
\* an automatic attempt and counts it
C14_ReconnectResetsBudget ==
    /\ [][(/\ LastOp(io') = "reconnect"
           /\ reconnectAttempts = MAX_RECONNECT_ATTEMPTS
           /\ ~Connected)
          => /\ reconnectAttempts' = 0
             /\ Len(Events(io', "new")) = 1
             /\ ~HasEvent(io', "setTimeout")
             /\ ReturnValue(io') = TRUE]_vars
    /\ [][(/\ LastOp(io') = "onclose"
           /\ reconnectAttempts < MAX_RECONNECT_ATTEMPTS
           /\ \E i \in 1..Len(io') : io'[i].ev = "closed" /\ io'[i].code = 1006)
          => /\ Len(Events(io', "setTimeout")) = 1
             /\ reconnectAttempts' = reconnectAttempts + 1]_vars

\* reconnect() has been called on an exhausted budget and made its attempt
C14_Witness ==
    /\ LastOp(io) = "reconnect"
    /\ io[1].attempts = MAX_RECONNECT_ATTEMPTS
    /\ HasEvent(io, "new")
    /\ reconnectAttempts = 0

\* the last step was the arrival of a message
MessageStep == io # <<>> /\ io[1].op = "onmessage"

\* the invocations of the callbacks of event e in the last step, in order
Invoked(e) == SelectSeq(io, LAMBDA x : x.ev = "callback" /\ x.event = e)

\* the callback invoked first for event e in the last step threw
FirstThrew(e) ==
    \E i \in 1..(Len(io) - 1) :
        /\ io[i].ev = "callback" /\ io[i].event = e
        /\ \A j \in 1..(i - 1) : ~(io[j].ev = "callback" /\ io[j].event = e)
        /\ io[i + 1].ev \in {"caught", "uncaught"}

\* C15: when an event is dispatched to two subscribers and the first throws,
\* the second is still invoked, exactly once and with the same data, and no
\* exception leaves triggerEvent
C15_ThrowingSubscriberIsIsolated ==
    MessageStep =>
        \A e \in EventTypes :
            (Len(io[1].listeners[e]) = 2 /\ FirstThrew(e)) =>
                /\ Len(Invoked(e)) = 2
                /\ Invoked(e)[2].cb = io[1].listeners[e][2]
                /\ Invoked(e)[2].data = Invoked(e)[1].data
                /\ Invoked(e)[2].data \in {[type |-> io[1].type],
                                          [data |-> [type |-> io[1].type]]}
                /\ \A i \in 1..Len(io) : io[i].ev # "uncaught"

C15_Witness ==
    /\ MessageStep
    /\ \E e \in EventTypes :
           /\ Len(io[1].listeners[e]) = 2
           /\ io[1].listeners[e][1] # io[1].listeners[e][2]
           /\ FirstThrew(e)
           /\ Len(Invoked(e)) = 2

\* C16: one dispatch invokes every callback registered for the event when the
\* dispatch starts, exactly once and in registration order, also when a
\* subscriber calls removeEventListener during the dispatch ('message' is
\* dispatched for every message that arrives)
C16_DispatchInvokesAllInOrder ==
    (MessageStep /\ impl = "websocket") =>
        /\ Len(Invoked("message")) = Len(io[1].listeners["message"])
        /\ \A i \in 1..Len(Invoked("message")) :
               Invoked("message")[i].cb = io[1].listeners["message"][i]

\* the types no file has a handler or a case for
Unrecognized == MessageTypes \ {"number_called"}

\* the dispatches of event e in the last step
Dispatched(e) == SelectSeq(io, LAMBDA x : x.ev = "triggerEvent" /\ x.event = e)

\* C17: a message of an unrecognized type is dispatched to 'unknown_message'
\* exactly once, with the message as data, in each of the three files
C17_UnknownTypeReachesUnknownChannel ==
    (MessageStep /\ io[1].type \in Unrecognized) =>
        /\ Len(Dispatched("unknown_message")) = 1
        /\ Dispatched("unknown_message")[1].data = [type |-> io[1].type]

\* the step is the open event of a socket, which drains the queue
DrainStep == io' # <<>> /\ io'[1].op = "onopen"

\* the application's messages a step discarded
DiscardedIds(log) ==
    {log[i].msg.id : i \in {j \in 1..Len(log) : log[j].ev = "discard" /\ log[j].msg.id > 0}}

\* C18: a queued message older than five minutes when a drain pass starts is
\* removed from the queue in that pass, is not handed to send, and its discard
\* is logged
C18_DrainDiscardsOldMessages ==
    [][DrainStep =>
          \A k \in 1..Len(messageQueue) :
              (messageQueue[k].id > 0 /\ now - messageQueue[k]._timestamp > maxAge) =>
                  /\ \A j \in 1..Len(messageQueue') :
                         messageQueue'[j].id # messageQueue[k].id
                  /\ \A j \in 1..Len(SentIds(io')) :
                         SentIds(io')[j] # messageQueue[k].id
                  /\ messageQueue[k].id \in DiscardedIds(io')]_vars

C18_Witness ==
    /\ io # <<>> /\ io[1].op = "onopen"
    /\ \E i \in 1..Len(io) :
           io[i].ev = "discard" /\ io[i].why = "age" /\ io[i].msg.id > 0

\* how often a step handed the message with this id to sendMessage, and to
\* the socket
Attempts(log, id) ==
    Len(SelectSeq(log, LAMBDA e : e.ev = "attempt" /\ e.msg.id = id))
Sends(log, id) ==
    Len(SelectSeq(log, LAMBDA e : e.ev = "send" /\ e.msg.id = id))

\* the entries of a queue that hold the message with this id
Entries(q, id) == SelectSeq(q, LAMBDA m : m.id = id)

\* C19: in a drain pass a queued message is attempted at most once and only
\* while its _retryCount is at most 3; an attempt whose send fails raises the
\* count by exactly one, any other entry keeps its count; a count above 3 is
\* never attempted again and the entry leaves the queue, at once in
\* websocket.js and in the next pass in part_000. A message is therefore
\* attempted in at most 4 passes
C19_RetriesAreCountedAndBounded ==
    [][DrainStep =>
          \A k \in 1..Len(messageQueue) :
              LET m == messageQueue[k]
                  after == Entries(messageQueue', m.id)
                  failed == Attempts(io', m.id) = 1 /\ Sends(io', m.id) = 0
              IN  m.id > 0 =>
                      /\ Attempts(io', m.id) <= 1
                      /\ Attempts(io', m.id) = 1 => m._retryCount <= MAX_RETRIES
                      /\ Len(after) <= 1
                      /\ Len(after) = 1 =>
                             /\ after[1]._retryCount =
                                    m._retryCount + (IF failed THEN 1 ELSE 0)
                             /\ after[1]._retryCount <= MAX_RETRIES + 1
                             /\ impl = "websocket" => after[1]._retryCount <= MAX_RETRIES
                      /\ m._retryCount > MAX_RETRIES => Len(after) = 0
                      /\ (failed /\ Len(after) = 0) =>
                             m._retryCount = MAX_RETRIES /\ impl = "websocket"]_vars

\* a message whose fourth attempt failed has left the queue
C19_Witness ==
    /\ io # <<>> /\ io[1].op = "onopen"
    /\ \E i \in 1..Len(io) :
           io[i].ev = "discard" /\ io[i].why = "retries" /\ io[i].msg.id > 0

\* the last step was the close event of a socket, with this close code
CloseStep(code) ==
    /\ io # <<>> /\ io[1].op = "onclose"
    /\ \E i \in 1..Len(io) : io[i].ev = "closed" /\ io[i].code = code

\* C20: a close event with code 1000, after disconnect() or after a close by
\* the server, schedules no reconnect, in each of the three files
C20_NormalClosureSchedulesNothing ==
    CloseStep(1000) => ~HasEvent(io, "setTimeout")

C20_Witness == CloseStep(1000) /\ ~HasEvent(io, "setTimeout")

\* the code of the close event the step delivered
ClosedWith(log) == (CHOOSE e \in {log[i] : i \in 1..Len(log)} : e.ev = "closed").code

\* C21: in websocket.js a close event with a code other than 1000 that arrives
\* while reconnectAttempts is below the maximum schedules exactly one
\* reconnect attempt
C21_UnplannedCloseSchedulesOne ==
    [][(io' # <<>> /\ io'[1].op = "onclose" /\ ClosedWith(io') # 1000
            /\ reconnectAttempts < MAX_RECONNECT_ATTEMPTS)
          => Len(Scheduled(io')) = 1]_vars

\* the step is a call of sendMessage
SendStep == io' # <<>> /\ io'[1].op = "sendMessage"
\* a message sendMessage accepts
Valid(m) == IsObject(m) /\ HasType(m)

\* C22: a valid message passed to sendMessage while no connection is open is
\* appended once to the tail of the queue with _retryCount 0 and the current
\* time, and the entries the queue had are unchanged, in each of the three
\* files
C22_OfflineMessageIsQueued ==
    [][(SendStep /\ Valid(io'[1].msg) /\ ~io'[1].open)
          => messageQueue' =
                 Append(messageQueue,
                        [_timestamp |-> now, _retryCount |-> 0] @@ io'[1].msg)]_vars

\* C23: a message JSON.stringify rejects inside sendMessage (the socket is
\* open, so the message is serialized) is reported as a failure and the queue
\* is unchanged by the call
C23_UnserializableIsNotQueued ==
    [][(SendStep /\ Valid(io'[1].msg) /\ ~io'[1].msg.ser /\ io'[1].open)
          => (~ReturnValue(io') /\ messageQueue' = messageQueue)]_vars

\* C24: disconnect() leaves the queue as it is; an open event of the module's
\* socket hands every queued message that is not too old to the socket; and
\* apart from the drain only clearMessageQueue() empties the queue
C24_DisconnectKeepsQueue ==
    [][/\ LastOp(io') = "disconnect" => messageQueue' = messageQueue
       /\ (DrainStep /\ ws' = io'[1].sock) =>
              \A k \in 1..Len(messageQueue) :
                  messageQueue[k].id > 0 =>
                      \/ Sends(io', messageQueue[k].id) = 1
                      \/ messageQueue[k].id \in DiscardedIds(io')
       /\ (messageQueue # <<>> /\ messageQueue' = <<>>) =>
              LastOp(io') \in {"clearMessageQueue", "onopen"}
       /\ LastOp(io') = "clearMessageQueue" => messageQueue' = <<>>]_vars

\* disconnect() was called with messages in the queue
C24_Witness ==
    /\ LastOp(io) = "disconnect"
    /\ \E k \in 1..Len(messageQueue) : messageQueue[k].id > 0

\* C25: a sendMessage call that follows disconnect() queues the message and
\* schedules no reconnect
C25_SendAfterDisconnectOnlyQueues ==
    [][(LastOp(io) = "disconnect" /\ SendStep /\ Valid(io'[1].msg))
          => /\ ~HasEvent(io', "setTimeout")
             /\ timers' = timers
             /\ messageQueue' =
                    Append(messageQueue,
                           [_timestamp |-> now, _retryCount |-> 0] @@ io'[1].msg)]_vars

\* the messages the step handed to the socket it opened, in order
SentOnOpened(log) ==
    SelectSeq(log, LAMBDA e : e.ev = "send" /\ e.sock = log[1].sock)

\* C26: the first message handed to a socket when it opens is 'hello'; what
\* the queue holds and what a subscriber sends comes after it
C26_HelloGoesFirst ==
    (LastOp(io) = "onopen" /\ SentOnOpened(io) # <<>>)
        => SentOnOpened(io)[1].msg.type = "hello"

\* the three files with the caller's identity: the application connects as an
\* administrator with a player id and a token, and never as anyone else
SpecF4 == (\E i \in Files : Start(i, {"onopen", "identity"})) /\ [][NextFiles]_vars

\* the hellos handed to the socket of an open event
HellosOnOpened(log) == SelectSeq(SentOnOpened(log), LAMBDA e : e.msg.type = "hello")

\* log is the record of the open event of the current socket, which a
\* reconnect timer made
ReopenedByTimer(log) ==
    /\ LastOp(log) = "onopen"
    /\ sockets[log[1].sock].by = "timer"
    /\ ws = log[1].sock

\* C27: when a socket made by a reconnect timer opens, a hello is sent on it
\* and it carries the player id, the admin flag and the token the caller
\* connected with
C27_ReconnectKeepsIdentity ==
    ReopenedByTimer(io)
        => /\ HellosOnOpened(io) # <<>>
           /\ \A i \in 1..Len(HellosOnOpened(io)) :
                 LET hello == HellosOnOpened(io)[i].msg
                 IN  /\ hello.playerId = AdminOptions.playerId
                     /\ hello.isAdmin = AdminOptions.isAdmin
                     /\ hello.token = AdminOptions.adminToken

\* the connection status read and kept by the application while connections
\* open and are lost and messages arrive
NextStatus ==
    \/ \E throws \in CtorThrows : Connect(throws)
    \/ \E s \in Slots : OnOpen(s)
    \/ \E s \in Slots : ConnectionLost(s)
    \/ \E s \in Slots, type \in MessageTypes : OnMessage(s, type, NoCallbacks)
    \/ GetConnectionStatus
    \/ \E property \in Properties : Mutate(property)

SpecW4 == Start("websocket", {"getConnectionStatus", "mutate"}) /\ [][NextStatus]_vars

\* what connectionStatus holds, and what the value the application keeps
\* holds, with the objects they refer to
Deref(h, r) == IF r = NULL THEN NoObject ELSE h.objects[r]
StatusValue ==
    [connected |-> connectionStatus.connected, playerId |-> connectionStatus.playerId,
     isAdmin |-> connectionStatus.isAdmin, lastMessage |-> Deref(heap, heap.lastMessage)]
SnapshotValue ==
    [i \in DOMAIN heap.snapshot |->
        [heap.snapshot[i] EXCEPT !.lastMessage = Deref(heap, @)]]

\* C28: an assignment to any part of the value getConnectionStatus() returned
\* leaves what connectionStatus holds as it was, and a step of the module
\* leaves the value the application keeps as it was
C28_StatusIsSnapshot ==
    [][/\ LastOp(io') = "mutate" => StatusValue' = StatusValue
       /\ (heap.snapshot # <<>> /\ LastOp(io') \notin {"mutate", "getConnectionStatus"})
              => SnapshotValue' = SnapshotValue]_vars

\* admin.js alone: the page connects, connections open, are closed by the
\* server and are lost, and the reconnect timers expire
NextAdmin ==
    \/ \E throws \in CtorThrows : Connect(throws)
    \/ \E throws \in CtorThrows : ReconnectTimer(throws)
    \/ \E s \in Slots : OnOpen(s)
    \/ \E s \in Slots, code \in ServerCodes : ServerClose(s, code)
    \/ \E s \in Slots : CloseEvent(s)
    \/ \E s \in Slots : ConnectionLost(s)

SpecA1 == Start("admin", {"onclose", "autoAttempts"}) /\ [][NextAdmin]_vars

\* the close event of the step recorded in log was not a normal closure
Unplanned(log) ==
    /\ LastOp(log) = "onclose"
    /\ \E i \in 1..Len(log) : log[i].ev = "closed" /\ log[i].code # 1000

\* C29: admin.js makes no sixth automatic attempt in a row, and the close
\* event that follows the fifth failed one sets no timer and reports the failure
C29_AdminGivesUpAfterFive ==
    /\ autoAttempts <= MAX_RECONNECT_ATTEMPTS
    /\ (Unplanned(io) /\ autoAttempts = MAX_RECONNECT_ATTEMPTS)
          => /\ ~HasEvent(io, "setTimeout")
             /\ \E i \in 1..Len(io) :
                   io[i].ev = "notify" /\ io[i].text = "Failed to reconnect"

\* websocket.js draining a queue that can hold messages JSON.stringify rejects
SpecW5 == Start("websocket", {"onopen", "unserializable"}) /\ [][Next]_vars

\* entry i of log is the attempt of a drain pass to send a queued message,
\* the send failed, and the message stays in the queue for another pass
FailedInBudget(log, i) ==
    /\ log[i].ev = "attempt"
    /\ ~\E j \in i + 1..Len(log) : log[j].ev = "send" /\ log[j].msg.id = log[i].msg.id
    /\ ~\E j \in i + 1..Len(log) :
           log[j].ev = "discard" /\ log[j].why = "retries" /\ log[j].msg.id = log[i].msg.id

\* C30: in a drain pass of websocket.js nothing is attempted after the first
\* message whose send fails within its retry budget, and no message enqueued
\* after that message is handed to the socket in the pass
C30_DrainStopsAtFailure ==
    (impl = "websocket" /\ LastOp(io) = "onopen")
        => \A i \in 1..Len(io) :
              FailedInBudget(io, i)
                  => /\ \A j \in i + 1..Len(io) : io[j].ev # "attempt"
                     /\ \A j \in 1..Len(io) :
                           io[j].ev = "send" => io[j].msg.id <= io[i].msg.id

\* part_000 draining a queue that can hold messages JSON.stringify rejects
SpecP3 == Start("part_000", {"onopen", "unserializable"}) /\ [][Next]_vars

\* entry k of the queue is tried in the step and its send fails
FailsInStep(k) ==
    Attempts(io', messageQueue[k].id) > Sends(io', messageQueue[k].id)

\* C31: when a failed send of a drain pass of part_000 raises the retry count
\* of a message above MAX_RETRIES, the message is discarded in that pass and
\* the pass goes on with the message behind it
C31_ExhaustedIsDiscardedAtOnce ==
    [][(DrainStep /\ impl = "part_000")
          => \A k \in 1..Len(messageQueue) :
                (messageQueue[k]._retryCount = MAX_RETRIES /\ FailsInStep(k))
                    => /\ Entries(messageQueue', messageQueue[k].id) = <<>>
                       /\ messageQueue[k].id \in DiscardedIds(io')
                       /\ k < Len(messageQueue)
                             => \/ Attempts(io', messageQueue[k + 1].id) > 0
                                \/ messageQueue[k + 1].id \in DiscardedIds(io')]_vars

\* websocket.js with its heartbeat callbacks and the messages it receives observed
SpecW6 == Start("websocket", {"heartbeat", "onmessage"}) /\ [][Next]_vars

\* the step is the receipt of a 'pong'
PongStep == io' # <<>> /\ io'[1].op = "onmessage" /\ io'[1].type = "pong"

\* C32: lastPong of websocket.js changes only in a step that receives a
\* 'pong'; a heartbeat callback, which sends the ping, leaves it as it was
C32_LastPongMovesOnPongOnly ==
    [][/\ lastPong' # lastPong => PongStep
       /\ LastOp(io') = "heartbeat" => lastPong' = lastPong]_vars

\* the three files with the interval timers of their heartbeats counted
SpecF5 == (\E i \in Files : Start(i, {"intervals"})) /\ [][NextFiles]_vars

\* no socket the module made is open or still has its close event to deliver
AllClosed == \A s \in Slots : sockets[s].readyState \in {"CONNECTING", "CLOSED"}

\* C33: at most one heartbeat interval timer runs at any time, and none runs
\* once every connection that was open has delivered its close event
C33_OneHeartbeatTimer ==
    /\ intervals <= 1
    /\ AllClosed => intervals = 0

\* C34: reconnectAttempts stays between 0 and MAX_RECONNECT_ATTEMPTS, and it
\* is 0 when the open event of a socket has been handled
C34_AttemptsBounded ==
    /\ reconnectAttempts \in 0..MAX_RECONNECT_ATTEMPTS
    /\ LastOp(io) = "onopen" => reconnectAttempts = 0

\* the sockets that are connecting or open
LiveSockets == {s \in Slots : sockets[s].readyState \in {"CONNECTING", "OPEN"}}

\* C35: at most one socket made by websocket.js is CONNECTING or OPEN
C35_OneLiveSocket ==
    impl = "websocket" => Cardinality(LiveSockets) <= 1

\* the step is the close event of a socket the module no longer refers to
StaleCloseStep == io' # <<>> /\ io'[1].op = "onclose" /\ io'[1].sock # ws

\* C36: the close event of a socket that websocket.js has replaced or dropped
\* leaves the reference to the current socket, connectionStatus.connected and
\* the heartbeat as they are and schedules no reconnect
C36_StaleCloseIsIgnored ==
    [][(impl = "websocket" /\ StaleCloseStep)
          => /\ ws' = ws
             /\ connectionStatus'.connected = connectionStatus.connected
             /\ pingInterval' = pingInterval
             /\ ~HasEvent(io', "setTimeout")]_vars

\* C37: at most one reconnect timer is pending at any time
C37_OneReconnectTimer ==
    timers <= 1

\* both files with the messages handed to a socket so far remembered
SpecB10 == (\E i \in Impls : Start(i, {"onopen", "handed"})) /\ [][Next]_vars

\* C38: a drain pass hands a message to the socket at most once, never a
\* message that was handed to a socket before, and a message it has handed
\* over is no longer in the queue when the pass ends
C38_HandedOverAtMostOnce ==
    [][DrainStep
          => \A id \in 1..MaxMsgs :
                Sends(io', id) > 0
                    => /\ Sends(io', id) = 1
                       /\ id \notin handed
                       /\ Entries(messageQueue', id) = <<>>]_vars

\* a drain pass has handed over the second message after the first was
\* handed to a socket by an earlier step, and has not sent the first again
C38_Witness ==
    /\ LastOp(io) = "onopen"
    /\ Sends(io, 2) = 1 /\ Sends(io, 1) = 0
    /\ handed = {1, 2}

\* C39: the record a drain pass of part_000 hands to the socket has the
\* fields of the message as it was passed to sendMessage, without the
\* _timestamp and _retryCount of the queue
C39_DrainSendsThePlainMessage ==
    (impl = "part_000" /\ LastOp(io) = "onopen")
        => \A i \in 1..Len(io) :
              (io[i].ev = "send" /\ io[i].msg.id > 0)
                  => DOMAIN io[i].msg \cap Meta = {}

\* how often a step took up the queued message with this id: to try it, or
\* to discard it for its age or, in part_000, for its retry count
\* (websocket.js discards for the retry count after it has tried)
Examinations(log, id) ==
    Attempts(log, id)
        + Len(SelectSeq(log, LAMBDA e : /\ e.ev = "discard" /\ e.msg.id = id
                                        /\ (e.why = "age" \/ impl = "part_000")))
Examined(log) == SelectSeq(log, LAMBDA e : e.ev = "attempt")

\* C40: a drain pass ends after it has taken up each of the application's
\* messages that were in the queue at most once and no other; the attempts of
\* a pass are no more than the entries the queue held plus the hello the open
\* event itself may have queued
C40_DrainExaminesEachOnce ==
    [][DrainStep
          => /\ \A id \in 1..MaxMsgs :
                   /\ Examinations(io', id) <= 1
                   /\ Examinations(io', id) = 1 => Entries(messageQueue, id) # <<>>
             /\ Len(Examined(io')) <= Len(messageQueue) + 1]_vars

\* a drain pass has tried both messages of the queue, one send succeeded and
\* one failed
C40_Witness ==
    /\ LastOp(io) = "onopen"
    /\ Attempts(io, 1) = 1 /\ Attempts(io, 2) = 1
    /\ Sends(io, 1) + Sends(io, 2) = 1
====
